---- MODULE Spec2Model ----
(***************************************************************************)
(* Model of simulation/update_context.rs: the per-tick UpdateContext, its   *)
(* value types (Attitude, LocalAcceleration, Velocity3D, Delta), the two    *)
(* constructors, update(), the relative-wind reconstruction and the         *)
(* read-only accessors.                                                     *)
(*                                                                          *)
(* Numbers.  An f64 is a fixed-point integer, F64_ONE ticks per 1.0.  A     *)
(* quantity is stored in its base unit (m/s, m/s^2, Pa, kg/m^3, s) in the   *)
(* same fixed point.  The inputs are chosen so that every product in the    *)
(* relative-wind pipeline is exact; f64 rounding is not modelled.           *)
(* An angle is quarter * 90deg + theta * atan(4/3) with theta in -1..1, so  *)
(* that its sine and cosine are exact (0, 3/5, 4/5, 1 and their negations). *)
(***************************************************************************)
EXTENDS Integers, Sequences, FiniteSets, TLC

-----------------------------------------------------------------------------
(* Bounds of the model *)

MaxQuarter == 3
MaxWind == 1
MaxSpeed == 1
MaxProfile == 1
MaxDelta == 1

-----------------------------------------------------------------------------
(* f64 arithmetic and units (uom) *)

F64_ONE == 25000

\* floor(x * num / den) without forming x * num
MulDiv(x, num, den) == (x \div den) * num + ((x % den) * num) \div den

\* f64 product
Mul(a, b) == MulDiv(a, b, F64_ONE)

\* unit coefficients: the value of one unit in the base unit, in f64 ticks
meter_per_second == 25000
foot_per_second == 7620
foot_per_minute == 127
meter_per_second_squared == 25000
kilogram_per_cubic_meter == 25000
second == 25000
\* pascals per inch of mercury, to the whole pascal; the pressure tick is 1 Pa
inch_of_mercury == 3386

\* Quantity::new::<unit>(value)
QuantityNew(unit, value) == MulDiv(value, unit, F64_ONE)

\* Quantity::get::<unit>()
QuantityGet(unit, quantity) == MulDiv(quantity, F64_ONE, unit)

\* Velocity::default(), Default::default() of a quantity
DefaultQuantity == QuantityNew(meter_per_second, 0)

-----------------------------------------------------------------------------
(* Angles and their sine and cosine *)

Angle(q, t) == [quarter |-> q, theta |-> t]

DefaultAngle == Angle(0, 0)

\* unary minus on an Angle
NegAngle(a) == Angle(0 - a.quarter, 0 - a.theta)

\* <<cos, sin>> of theta * atan(4/3)
ThetaCosSin(t) ==
    IF t = 0 THEN <<F64_ONE, 0>>
    ELSE IF t > 0 THEN <<(F64_ONE \div 5) * 3, (F64_ONE \div 5) * 4>>
    ELSE <<(F64_ONE \div 5) * 3, 0 - (F64_ONE \div 5) * 4>>

\* cos(angle.get::<radian>())
Cos(a) ==
    LET b == ThetaCosSin(a.theta)
        q == a.quarter % 4
    IN  CASE q = 0 -> b[1]
          [] q = 1 -> 0 - b[2]
          [] q = 2 -> 0 - b[1]
          [] q = 3 -> b[2]

\* sin(angle.get::<radian>())
Sin(a) ==
    LET b == ThetaCosSin(a.theta)
        q == a.quarter % 4
    IN  CASE q = 0 -> b[2]
          [] q = 1 -> b[1]
          [] q = 2 -> 0 - b[2]
          [] q = 3 -> 0 - b[1]

-----------------------------------------------------------------------------
(* nalgebra: Vector3 and Rotation3 *)

\* Vector3::new(x, y, z); component i of the source is v[i + 1]
Vector3(x, y, z) == <<x, y, z>>

x_axis == Vector3(1, 0, 0)
y_axis == Vector3(0, 1, 0)
z_axis == Vector3(0, 0, 1)

\* Rotation3::from_axis_angle for a coordinate axis (Rodrigues' formula):
\* R = cos * I + sin * [k]x + (1 - cos) * k k^T, row by row
Rotation3_from_axis_angle(k, angle) ==
    LET c == Cos(angle)
        s == Sin(angle)
        t == F64_ONE - c
    IN  << <<c + t * k[1] * k[1], t * k[1] * k[2] - s * k[3], t * k[1] * k[3] + s * k[2]>>,
           <<t * k[2] * k[1] + s * k[3], c + t * k[2] * k[2], t * k[2] * k[3] - s * k[1]>>,
           <<t * k[3] * k[1] - s * k[2], t * k[3] * k[2] + s * k[1], c + t * k[3] * k[3]>> >>

\* Rotation3::inverse(): the transpose
Rotation3_inverse(r) ==
    << <<r[1][1], r[2][1], r[3][1]>>,
       <<r[1][2], r[2][2], r[3][2]>>,
       <<r[1][3], r[2][3], r[3][3]>> >>

\* one row of Rotation3 * Vector3 (each product splits the vector's component,
\* which may exceed 1.0, and not the rotation's entry, which does not)
RowDot(row, v) == Mul(v[1], row[1]) + Mul(v[2], row[2]) + Mul(v[3], row[3])

\* Rotation3 * Vector3
Rotation3_mul(r, v) == <<RowDot(r[1], v), RowDot(r[2], v), RowDot(r[3], v)>>

\* Vector3 - Vector3
Vector3_sub(a, b) == <<a[1] - b[1], a[2] - b[2], a[3] - b[3]>>

-----------------------------------------------------------------------------
(* Attitude *)

Attitude_new(pitch, bank) == [pitch |-> pitch, bank |-> bank]

DefaultAttitude == Attitude_new(DefaultAngle, DefaultAngle)

pitch_rotation_transform(self) ==
    Rotation3_from_axis_angle(x_axis, self.pitch)

\* the bank rotation gone wrong: the angle is not negated
bank_rotation_transform_not_negated(self) ==
    Rotation3_from_axis_angle(z_axis, self.bank)

bank_rotation_transform(self) ==
    Rotation3_from_axis_angle(z_axis, NegAngle(self.bank))

Attitude_pitch(self) == self.pitch

Attitude_bank(self) == self.bank

-----------------------------------------------------------------------------
(* LocalAcceleration *)

ACCEL_X_AXIS == 0
ACCEL_Y_AXIS == 1
ACCEL_Z_AXIS == 2

LocalAcceleration_new(lateral_acceleration, vertical_acceleration, longitudinal_acceleration) ==
    [acceleration |->
        <<lateral_acceleration, vertical_acceleration, longitudinal_acceleration>>]

DefaultLocalAcceleration ==
    [acceleration |-> <<DefaultQuantity, DefaultQuantity, DefaultQuantity>>]

\* the accessor gone wrong: the longitudinal part read from the lateral slot
LocalAcceleration_long_accel_from_x(self) == self.acceleration[ACCEL_X_AXIS + 1]

LocalAcceleration_long_accel(self) == self.acceleration[ACCEL_Z_AXIS + 1]

LocalAcceleration_lat_accel(self) == self.acceleration[ACCEL_X_AXIS + 1]

LocalAcceleration_vert_accel(self) == self.acceleration[ACCEL_Y_AXIS + 1]

to_ms2_vector(self) ==
    Vector3(QuantityGet(meter_per_second_squared, LocalAcceleration_lat_accel(self)),
            QuantityGet(meter_per_second_squared, LocalAcceleration_vert_accel(self)),
            QuantityGet(meter_per_second_squared, LocalAcceleration_long_accel(self)))

-----------------------------------------------------------------------------
(* Velocity3D *)

VELOCITY_X_AXIS == 0
VELOCITY_Y_AXIS == 1
VELOCITY_Z_AXIS == 2

Velocity3D_new(lateral_velocity, vertical_velocity, longitudinal_velocity) ==
    [velocity |-> <<lateral_velocity, vertical_velocity, longitudinal_velocity>>]

long_velocity(self) == self.velocity[VELOCITY_Z_AXIS + 1]

lat_velocity(self) == self.velocity[VELOCITY_X_AXIS + 1]

vert_velocity(self) == self.velocity[VELOCITY_Y_AXIS + 1]

to_ms_vector(self) ==
    Vector3(QuantityGet(meter_per_second, lat_velocity(self)),
            QuantityGet(meter_per_second, vert_velocity(self)),
            QuantityGet(meter_per_second, long_velocity(self)))

-----------------------------------------------------------------------------
(* Duration and Delta *)

NANOS_PER_SEC == 1000000000
NANOS_PER_MILLI == 1000000

\* Duration::new: whole seconds and the nanoseconds below one second
Duration(secs, nanos) == [secs |-> secs, nanos |-> nanos]

Duration_from_millis(ms) ==
    Duration(ms \div 1000, (ms % 1000) * NANOS_PER_MILLI)

DefaultDuration == Duration(0, 0)

\* Duration::as_secs_f64(): secs + nanos / 1e9
as_secs_f64(d) == d.secs * F64_ONE + d.nanos \div (NANOS_PER_SEC \div F64_ONE)

\* impl From<Duration> for Delta; Delta(delta)
Delta_from_Duration(value) == <<value>>

DefaultDelta == Delta_from_Duration(DefaultDuration)

\* impl From<Delta> for Duration
Duration_from_Delta(value) == value[1]

\* impl From<Delta> for f64
f64_from_Delta(value) == as_secs_f64(value[1])

\* impl From<Delta> for Time
Time_from_Delta(value) == QuantityNew(second, f64_from_Delta(value))

-----------------------------------------------------------------------------
(* The named simulator signals *)

AMBIENT_DENSITY_KEY == "AMBIENT DENSITY"
AMBIENT_TEMPERATURE_KEY == "AMBIENT TEMPERATURE"
INDICATED_AIRSPEED_KEY == "AIRSPEED INDICATED"
TRUE_AIRSPEED_KEY == "AIRSPEED TRUE"
INDICATED_ALTITUDE_KEY == "INDICATED ALTITUDE"
IS_ON_GROUND_KEY == "SIM ON GROUND"
AMBIENT_PRESSURE_KEY == "AMBIENT PRESSURE"
VERTICAL_SPEED_KEY == "VELOCITY WORLD Y"
ACCEL_BODY_X_KEY == "ACCELERATION BODY X"
ACCEL_BODY_Y_KEY == "ACCELERATION BODY Y"
ACCEL_BODY_Z_KEY == "ACCELERATION BODY Z"
WIND_VELOCITY_X_KEY == "AMBIENT WIND X"
WIND_VELOCITY_Y_KEY == "AMBIENT WIND Y"
WIND_VELOCITY_Z_KEY == "AMBIENT WIND Z"
PLANE_PITCH_KEY == "PLANE PITCH DEGREES"
PLANE_BANK_KEY == "PLANE BANK DEGREES"
MACH_NUMBER_KEY == "AIRSPEED MACH"
TRUE_HEADING_KEY == "PLANE HEADING DEGREES TRUE"
LOCAL_LATERAL_SPEED_KEY == "VELOCITY BODY X"
LOCAL_LONGITUDINAL_SPEED_KEY == "VELOCITY BODY Z"
LOCAL_VERTICAL_SPEED_KEY == "VELOCITY BODY Y"

\* every *_KEY constant the type declares
KeyConstants ==
    {AMBIENT_DENSITY_KEY,
     AMBIENT_TEMPERATURE_KEY,
     INDICATED_AIRSPEED_KEY,
     TRUE_AIRSPEED_KEY,
     INDICATED_ALTITUDE_KEY,
     IS_ON_GROUND_KEY,
     AMBIENT_PRESSURE_KEY,
     VERTICAL_SPEED_KEY,
     ACCEL_BODY_X_KEY,
     ACCEL_BODY_Y_KEY,
     ACCEL_BODY_Z_KEY,
     WIND_VELOCITY_X_KEY,
     WIND_VELOCITY_Y_KEY,
     WIND_VELOCITY_Z_KEY,
     PLANE_PITCH_KEY,
     PLANE_BANK_KEY,
     MACH_NUMBER_KEY,
     TRUE_HEADING_KEY,
     LOCAL_LATERAL_SPEED_KEY,
     LOCAL_LONGITUDINAL_SPEED_KEY,
     LOCAL_VERTICAL_SPEED_KEY}

\* the id fields of the struct, in the order both struct expressions fill them
IdFields ==
    <<"ambient_temperature_id",
      "indicated_airspeed_id",
      "true_airspeed_id",
      "indicated_altitude_id",
      "is_on_ground_id",
      "ambient_pressure_id",
      "ambient_density_id",
      "vertical_speed_id",
      "local_longitudinal_speed_id",
      "local_lateral_speed_id",
      "local_vertical_speed_id",
      "accel_body_x_id",
      "accel_body_y_id",
      "accel_body_z_id",
      "wind_velocity_x_id",
      "wind_velocity_y_id",
      "wind_velocity_z_id",
      "plane_pitch_id",
      "plane_bank_id",
      "plane_true_heading_id",
      "mach_number_id">>

\* new(): the key passed to get_identifier for each id field, in evaluation order
new_requests ==
    <<AMBIENT_TEMPERATURE_KEY,
      INDICATED_AIRSPEED_KEY,
      TRUE_AIRSPEED_KEY,
      INDICATED_ALTITUDE_KEY,
      IS_ON_GROUND_KEY,
      AMBIENT_PRESSURE_KEY,
      AMBIENT_DENSITY_KEY,
      VERTICAL_SPEED_KEY,
      LOCAL_LONGITUDINAL_SPEED_KEY,
      LOCAL_LATERAL_SPEED_KEY,
      LOCAL_VERTICAL_SPEED_KEY,
      ACCEL_BODY_X_KEY,
      ACCEL_BODY_Y_KEY,
      ACCEL_BODY_Z_KEY,
      WIND_VELOCITY_X_KEY,
      WIND_VELOCITY_Y_KEY,
      WIND_VELOCITY_Z_KEY,
      PLANE_PITCH_KEY,
      PLANE_BANK_KEY,
      TRUE_HEADING_KEY,
      MACH_NUMBER_KEY>>

\* the literals gone wrong: VELOCITY BODY X and VELOCITY BODY Z exchanged
new_for_simulation_requests_axes_swapped ==
    <<"AMBIENT TEMPERATURE", "AIRSPEED INDICATED", "AIRSPEED TRUE",
      "INDICATED ALTITUDE", "SIM ON GROUND", "AMBIENT PRESSURE",
      "AMBIENT DENSITY", "VELOCITY WORLD Y", "VELOCITY BODY X",
      "VELOCITY BODY Z", "VELOCITY BODY Y", "ACCELERATION BODY X",
      "ACCELERATION BODY Y", "ACCELERATION BODY Z", "AMBIENT WIND X",
      "AMBIENT WIND Y", "AMBIENT WIND Z", "PLANE PITCH DEGREES",
      "PLANE BANK DEGREES", "PLANE HEADING DEGREES TRUE", "AIRSPEED MACH">>

\* the literals gone wrong: AIRSPEED TRUE requested twice, AIRSPEED INDICATED never
new_for_simulation_requests_repeated ==
    <<"AMBIENT TEMPERATURE", "AIRSPEED TRUE", "AIRSPEED TRUE",
      "INDICATED ALTITUDE", "SIM ON GROUND", "AMBIENT PRESSURE",
      "AMBIENT DENSITY", "VELOCITY WORLD Y", "VELOCITY BODY Z",
      "VELOCITY BODY X", "VELOCITY BODY Y", "ACCELERATION BODY X",
      "ACCELERATION BODY Y", "ACCELERATION BODY Z", "AMBIENT WIND X",
      "AMBIENT WIND Y", "AMBIENT WIND Z", "PLANE PITCH DEGREES",
      "PLANE BANK DEGREES", "PLANE HEADING DEGREES TRUE", "AIRSPEED MACH">>

\* new_for_simulation(): the literal passed to get_identifier for each id field
new_for_simulation_requests ==
    <<"AMBIENT TEMPERATURE",
      "AIRSPEED INDICATED",
      "AIRSPEED TRUE",
      "INDICATED ALTITUDE",
      "SIM ON GROUND",
      "AMBIENT PRESSURE",
      "AMBIENT DENSITY",
      "VELOCITY WORLD Y",
      "VELOCITY BODY Z",
      "VELOCITY BODY X",
      "VELOCITY BODY Y",
      "ACCELERATION BODY X",
      "ACCELERATION BODY Y",
      "ACCELERATION BODY Z",
      "AMBIENT WIND X",
      "AMBIENT WIND Y",
      "AMBIENT WIND Z",
      "PLANE PITCH DEGREES",
      "PLANE BANK DEGREES",
      "PLANE HEADING DEGREES TRUE",
      "AIRSPEED MACH">>

-----------------------------------------------------------------------------
(* InitContext: the registry of variable identifiers *)

\* InitContext::get_identifier(name): the identifier of a name is its position
\* in the registry; a name already registered keeps its identifier
get_identifier(context, name) ==
    IF \E i \in 1..Len(context) : context[i] = name
    THEN [context |-> context,
          id |-> CHOOSE i \in 1..Len(context) : context[i] = name]
    ELSE [context |-> Append(context, name), id |-> Len(context) + 1]

\* the get_identifier calls of a struct expression, one after the other
RECURSIVE get_identifiers(_, _)
get_identifiers(context, names) ==
    IF names = <<>>
    THEN [context |-> context, ids |-> <<>>]
    ELSE LET first == get_identifier(context, Head(names))
             rest == get_identifiers(first.context, Tail(names))
         IN  [context |-> rest.context, ids |-> <<first.id>> \o rest.ids]

\* the id fields of the struct, filled from the identifiers in IdFields order
IdRecord(ids) ==
    [f \in {IdFields[i] : i \in 1..Len(IdFields)} |->
        ids[CHOOSE i \in 1..Len(IdFields) : IdFields[i] = f]]

-----------------------------------------------------------------------------
(* UpdateContext: constructors *)

\* UpdateContext::new(context, delta, ...): the struct it returns and the
\* InitContext it leaves behind
UpdateContext_new(context, delta, indicated_airspeed, true_airspeed, indicated_altitude, ambient_temperature, is_on_ground, longitudinal_acceleration, lateral_acceleration, vertical_acceleration, pitch, bank, mach_number) ==
    LET got == get_identifiers(context, new_requests)
    IN  [context |-> got.context,
         requested |-> new_requests,
         self |-> IdRecord(got.ids) @@
            [delta |-> Delta_from_Duration(delta),
             indicated_airspeed |-> indicated_airspeed,
             true_airspeed |-> true_airspeed,
             indicated_altitude |-> indicated_altitude,
             ambient_temperature |-> ambient_temperature,
             ambient_pressure |-> QuantityNew(inch_of_mercury, MulDiv(F64_ONE, 2992, 100)),
             is_on_ground |-> is_on_ground,
             vertical_speed |-> QuantityNew(foot_per_minute, 0),
             local_acceleration |->
                LocalAcceleration_new(lateral_acceleration, vertical_acceleration,
                                      longitudinal_acceleration),
             world_ambient_wind |->
                Velocity3D_new(DefaultQuantity, DefaultQuantity, DefaultQuantity),
             local_relative_wind |->
                Velocity3D_new(DefaultQuantity, DefaultQuantity, DefaultQuantity),
             local_velocity |->
                Velocity3D_new(DefaultQuantity, DefaultQuantity, indicated_airspeed),
             attitude |-> Attitude_new(pitch, bank),
             mach_number |-> mach_number,
             air_density |-> QuantityNew(kilogram_per_cubic_meter, MulDiv(F64_ONE, 122, 100)),
             true_heading |-> DefaultAngle]]

\* UpdateContext::new_for_simulation(context)
UpdateContext_new_for_simulation(context) ==
    LET got == get_identifiers(context, new_for_simulation_requests)
    IN  [context |-> got.context,
         requested |-> new_for_simulation_requests,
         self |-> IdRecord(got.ids) @@
            [delta |-> DefaultDelta,
             indicated_airspeed |-> DefaultQuantity,
             true_airspeed |-> DefaultQuantity,
             indicated_altitude |-> DefaultQuantity,
             ambient_temperature |-> DefaultQuantity,
             ambient_pressure |-> DefaultQuantity,
             is_on_ground |-> FALSE,
             vertical_speed |-> DefaultQuantity,
             local_acceleration |-> DefaultLocalAcceleration,
             world_ambient_wind |->
                Velocity3D_new(DefaultQuantity, DefaultQuantity, DefaultQuantity),
             local_relative_wind |->
                Velocity3D_new(DefaultQuantity, DefaultQuantity, DefaultQuantity),
             local_velocity |->
                Velocity3D_new(DefaultQuantity, DefaultQuantity, DefaultQuantity),
             attitude |-> DefaultAttitude,
             mach_number |-> DefaultQuantity,
             air_density |-> QuantityNew(kilogram_per_cubic_meter, MulDiv(F64_ONE, 122, 100)),
             true_heading |-> DefaultAngle]]

-----------------------------------------------------------------------------
(* UpdateContext: update and the relative-wind reconstruction *)

\* SimulatorReader::read(id): the current value of the signal the identifier
\* was registered for
read(reader, id) == reader.values[reader.context[id]]

true_heading_rotation_transform(self) ==
    Rotation3_from_axis_angle(y_axis, self.true_heading)

UpdateContext_attitude(self) == self.attitude

UpdateContext_local_velocity(self) == self.local_velocity

\* the rotation gone wrong: bank applied before the inverse heading
ambient_wind_bank_before_heading(self) ==
    LET world_ambient_wind == to_ms_vector(self.world_ambient_wind)
        pitch_rotation == pitch_rotation_transform(UpdateContext_attitude(self))
        bank_rotation == bank_rotation_transform(UpdateContext_attitude(self))
        heading_rotation == true_heading_rotation_transform(self)
    IN  Rotation3_mul(Rotation3_inverse(pitch_rotation),
            Rotation3_mul(Rotation3_inverse(heading_rotation),
                Rotation3_mul(bank_rotation, world_ambient_wind)))

\* the rotation gone wrong: the heading rotation applied, not its inverse
ambient_wind_heading_not_inverted(self) ==
    LET world_ambient_wind == to_ms_vector(self.world_ambient_wind)
        pitch_rotation == pitch_rotation_transform(UpdateContext_attitude(self))
        bank_rotation == bank_rotation_transform(UpdateContext_attitude(self))
        heading_rotation == true_heading_rotation_transform(self)
    IN  Rotation3_mul(Rotation3_inverse(pitch_rotation),
            Rotation3_mul(bank_rotation,
                Rotation3_mul(heading_rotation, world_ambient_wind)))

\* update_relative_wind: the world wind rotated into the plane's axes
ambient_wind_in_plane_local_coordinates(self) ==
    LET world_ambient_wind == to_ms_vector(self.world_ambient_wind)
        pitch_rotation == pitch_rotation_transform(UpdateContext_attitude(self))
        bank_rotation == bank_rotation_transform(UpdateContext_attitude(self))
        heading_rotation == true_heading_rotation_transform(self)
    IN  Rotation3_mul(Rotation3_inverse(pitch_rotation),
            Rotation3_mul(bank_rotation,
                Rotation3_mul(Rotation3_inverse(heading_rotation),
                              world_ambient_wind)))

\* the subtraction gone wrong: the plane's velocity is rotated with the wind
relative_wind_rotating_velocity(self) ==
    LET pitch_rotation == pitch_rotation_transform(UpdateContext_attitude(self))
        bank_rotation == bank_rotation_transform(UpdateContext_attitude(self))
        heading_rotation == true_heading_rotation_transform(self)
    IN  Rotation3_mul(Rotation3_inverse(pitch_rotation),
            Rotation3_mul(bank_rotation,
                Rotation3_mul(Rotation3_inverse(heading_rotation),
                    Vector3_sub(to_ms_vector(self.world_ambient_wind),
                                to_ms_vector(UpdateContext_local_velocity(self))))))

\* update_relative_wind: the rotated wind less the plane's own velocity
relative_wind(self) ==
    Vector3_sub(ambient_wind_in_plane_local_coordinates(self),
                to_ms_vector(UpdateContext_local_velocity(self)))

update_relative_wind(self) ==
    LET rw == relative_wind(self)
    IN  [self EXCEPT !.local_relative_wind =
            Velocity3D_new(QuantityNew(meter_per_second, rw[1]),
                           QuantityNew(meter_per_second, rw[2]),
                           QuantityNew(meter_per_second, rw[3]))]

\* update gone wrong: one field, mach_number, is not refreshed
update_keeping_mach_number(self, reader, delta) ==
    LET s1 == [self EXCEPT
                !.ambient_temperature = read(reader, self.ambient_temperature_id),
                !.indicated_airspeed = read(reader, self.indicated_airspeed_id),
                !.true_airspeed = read(reader, self.true_airspeed_id),
                !.indicated_altitude = read(reader, self.indicated_altitude_id),
                !.is_on_ground = read(reader, self.is_on_ground_id),
                !.ambient_pressure =
                    QuantityNew(inch_of_mercury, read(reader, self.ambient_pressure_id)),
                !.vertical_speed =
                    QuantityNew(foot_per_minute, read(reader, self.vertical_speed_id)),
                !.delta = Delta_from_Duration(delta),
                !.local_acceleration =
                    LocalAcceleration_new(read(reader, self.accel_body_x_id),
                                          read(reader, self.accel_body_y_id),
                                          read(reader, self.accel_body_z_id)),
                !.world_ambient_wind =
                    Velocity3D_new(
                        QuantityNew(meter_per_second, read(reader, self.wind_velocity_x_id)),
                        QuantityNew(meter_per_second, read(reader, self.wind_velocity_y_id)),
                        QuantityNew(meter_per_second, read(reader, self.wind_velocity_z_id))),
                !.local_velocity =
                    Velocity3D_new(
                        QuantityNew(foot_per_second, read(reader, self.local_lateral_speed_id)),
                        QuantityNew(foot_per_second, read(reader, self.local_vertical_speed_id)),
                        QuantityNew(foot_per_second,
                                    read(reader, self.local_longitudinal_speed_id))),
                !.attitude = Attitude_new(read(reader, self.plane_pitch_id),
                                          read(reader, self.plane_bank_id)),
                !.air_density = read(reader, self.ambient_density_id),
                !.true_heading = read(reader, self.plane_true_heading_id)]
    IN  update_relative_wind(s1)

\* UpdateContext::update(reader, delta): the struct after the call
update(self, reader, delta) ==
    LET s1 == [self EXCEPT
                !.ambient_temperature = read(reader, self.ambient_temperature_id),
                !.indicated_airspeed = read(reader, self.indicated_airspeed_id),
                !.true_airspeed = read(reader, self.true_airspeed_id),
                !.indicated_altitude = read(reader, self.indicated_altitude_id),
                !.is_on_ground = read(reader, self.is_on_ground_id),
                !.ambient_pressure =
                    QuantityNew(inch_of_mercury, read(reader, self.ambient_pressure_id)),
                !.vertical_speed =
                    QuantityNew(foot_per_minute, read(reader, self.vertical_speed_id)),
                !.delta = Delta_from_Duration(delta),
                !.local_acceleration =
                    LocalAcceleration_new(read(reader, self.accel_body_x_id),
                                          read(reader, self.accel_body_y_id),
                                          read(reader, self.accel_body_z_id)),
                !.world_ambient_wind =
                    Velocity3D_new(
                        QuantityNew(meter_per_second, read(reader, self.wind_velocity_x_id)),
                        QuantityNew(meter_per_second, read(reader, self.wind_velocity_y_id)),
                        QuantityNew(meter_per_second, read(reader, self.wind_velocity_z_id))),
                !.local_velocity =
                    Velocity3D_new(
                        QuantityNew(foot_per_second, read(reader, self.local_lateral_speed_id)),
                        QuantityNew(foot_per_second, read(reader, self.local_vertical_speed_id)),
                        QuantityNew(foot_per_second,
                                    read(reader, self.local_longitudinal_speed_id))),
                !.attitude = Attitude_new(read(reader, self.plane_pitch_id),
                                          read(reader, self.plane_bank_id)),
                !.mach_number = read(reader, self.mach_number_id),
                !.air_density = read(reader, self.ambient_density_id),
                !.true_heading = read(reader, self.plane_true_heading_id)]
    IN  update_relative_wind(s1)

-----------------------------------------------------------------------------
(* UpdateContext: read-only accessors *)

UpdateContext_is_in_flight(self) == ~self.is_on_ground

UpdateContext_delta(self) == Duration_from_Delta(self.delta)

UpdateContext_delta_as_secs_f64(self) == f64_from_Delta(self.delta)

UpdateContext_delta_as_time(self) == Time_from_Delta(self.delta)

UpdateContext_indicated_airspeed(self) == self.indicated_airspeed

UpdateContext_true_airspeed(self) == self.true_airspeed

UpdateContext_indicated_altitude(self) == self.indicated_altitude

UpdateContext_ambient_temperature(self) == self.ambient_temperature

UpdateContext_ambient_pressure(self) == self.ambient_pressure

UpdateContext_ambient_air_density(self) == self.air_density

UpdateContext_vertical_speed(self) == self.vertical_speed

UpdateContext_is_on_ground(self) == self.is_on_ground

UpdateContext_long_accel(self) == LocalAcceleration_long_accel(self.local_acceleration)

UpdateContext_lat_accel(self) == LocalAcceleration_lat_accel(self.local_acceleration)

UpdateContext_vert_accel(self) == LocalAcceleration_vert_accel(self.local_acceleration)

UpdateContext_local_relative_wind(self) == self.local_relative_wind

UpdateContext_acceleration(self) == self.local_acceleration

UpdateContext_pitch(self) == Attitude_pitch(self.attitude)

UpdateContext_bank(self) == Attitude_bank(self.attitude)

UpdateContext_mach_number(self) == self.mach_number

\* with_delta gone wrong: the copy's relative wind is reconstructed afresh
with_delta_recomputing(self, delta) ==
    LET copy == self
    IN  update_relative_wind([copy EXCEPT !.delta = Delta_from_Duration(delta)])

\* UpdateContext::with_delta(delta): the copy it returns
with_delta(self, delta) ==
    LET copy == self
    IN  [copy EXCEPT !.delta = Delta_from_Duration(delta)]

\* the accessors that take no argument
Accessors ==
    {"is_in_flight", "delta", "delta_as_secs_f64", "delta_as_time",
     "indicated_airspeed", "true_airspeed", "indicated_altitude",
     "ambient_temperature", "ambient_pressure", "ambient_air_density",
     "vertical_speed", "is_on_ground", "long_accel", "lat_accel", "vert_accel",
     "local_relative_wind", "local_velocity", "acceleration", "pitch", "bank",
     "attitude", "mach_number", "true_heading_rotation_transform"}

\* an accessor gone wrong: reading the relative wind reconstructs it in place
AfterRead_recomputing(self, name) ==
    IF name = "local_relative_wind" THEN update_relative_wind(self) ELSE self

\* every accessor takes &self: the receiver is not written
AfterRead(self, name) == self

\* a call of an accessor: the receiver after the call and the value returned
Call(self, name) ==
    [self |-> AfterRead(self, name),
     result |->
        CASE name = "is_in_flight" -> UpdateContext_is_in_flight(self)
          [] name = "delta" -> UpdateContext_delta(self)
          [] name = "delta_as_secs_f64" -> UpdateContext_delta_as_secs_f64(self)
          [] name = "delta_as_time" -> UpdateContext_delta_as_time(self)
          [] name = "indicated_airspeed" -> UpdateContext_indicated_airspeed(self)
          [] name = "true_airspeed" -> UpdateContext_true_airspeed(self)
          [] name = "indicated_altitude" -> UpdateContext_indicated_altitude(self)
          [] name = "ambient_temperature" -> UpdateContext_ambient_temperature(self)
          [] name = "ambient_pressure" -> UpdateContext_ambient_pressure(self)
          [] name = "ambient_air_density" -> UpdateContext_ambient_air_density(self)
          [] name = "vertical_speed" -> UpdateContext_vertical_speed(self)
          [] name = "is_on_ground" -> UpdateContext_is_on_ground(self)
          [] name = "long_accel" -> UpdateContext_long_accel(self)
          [] name = "lat_accel" -> UpdateContext_lat_accel(self)
          [] name = "vert_accel" -> UpdateContext_vert_accel(self)
          [] name = "local_relative_wind" -> UpdateContext_local_relative_wind(self)
          [] name = "local_velocity" -> UpdateContext_local_velocity(self)
          [] name = "acceleration" -> UpdateContext_acceleration(self)
          [] name = "pitch" -> UpdateContext_pitch(self)
          [] name = "bank" -> UpdateContext_bank(self)
          [] name = "attitude" -> UpdateContext_attitude(self)
          [] name = "mach_number" -> UpdateContext_mach_number(self)
          [] name = "true_heading_rotation_transform" ->
                true_heading_rotation_transform(self)]

\* a call of with_delta, which takes &self as well
CallWithDelta(self, d) ==
    [self |-> AfterRead(self, "with_delta"), result |-> with_delta(self, d)]

-----------------------------------------------------------------------------
(* The inputs: simulator signals, tick lengths, constructor arguments *)

\* 0, 90 + atan(4/3), 180, 270 + atan(4/3), ... degrees
Angles == {Angle(q, q % 2) : q \in 0..MaxQuarter}

\* a horizontal wind of speed w blowing along heading a, in world axes
AlignedWind(w, a) == <<Mul(w, Sin(a)), 0, Mul(w, Cos(a))>>

\* AMBIENT WIND X/Y/Z in m/s: calm, along a heading, or with three distinct parts
Winds ==
    {<<0, 0, 0>>}
    \cup {AlignedWind(5 * k * F64_ONE, a) : k \in 1..MaxWind, a \in Angles}
    \cup {<<k * F64_ONE, 2 * k * F64_ONE, 3 * k * F64_ONE>> : k \in 1..MaxWind}

\* VELOCITY BODY X/Y/Z in ft/s
BodyVelocities ==
    {<<k * F64_ONE, 0 - 2 * k * F64_ONE, 7 * k * F64_ONE>> : k \in 0..MaxSpeed}

\* the signals that feed no rotation; index 5 is the on-ground flag
ScalarKeys ==
    <<AMBIENT_TEMPERATURE_KEY, INDICATED_AIRSPEED_KEY, TRUE_AIRSPEED_KEY,
      INDICATED_ALTITUDE_KEY, IS_ON_GROUND_KEY, AMBIENT_PRESSURE_KEY,
      AMBIENT_DENSITY_KEY, VERTICAL_SPEED_KEY, ACCEL_BODY_X_KEY,
      ACCEL_BODY_Y_KEY, ACCEL_BODY_Z_KEY, MACH_NUMBER_KEY>>

ScalarKeySet == {ScalarKeys[i] : i \in 1..Len(ScalarKeys)}

\* profile p gives every scalar signal a value no other scalar signal has
ScalarValue(key, p) ==
    IF key = IS_ON_GROUND_KEY
    THEN p % 2 = 1
    ELSE ((CHOOSE i \in 1..Len(ScalarKeys) : ScalarKeys[i] = key)
            + Len(ScalarKeys) * p) * F64_ONE

WithScalars(values, p) ==
    [k \in KeyConstants |->
        IF k \in ScalarKeySet THEN ScalarValue(k, p) ELSE values[k]]

WithWind(values, w) ==
    [values EXCEPT ![WIND_VELOCITY_X_KEY] = w[1],
                   ![WIND_VELOCITY_Y_KEY] = w[2],
                   ![WIND_VELOCITY_Z_KEY] = w[3]]

WithBodyVelocity(values, v) ==
    [values EXCEPT ![LOCAL_LATERAL_SPEED_KEY] = v[1],
                   ![LOCAL_VERTICAL_SPEED_KEY] = v[2],
                   ![LOCAL_LONGITUDINAL_SPEED_KEY] = v[3]]

Reading(pitch, bank, heading, w, v, p) ==
    LET angles == [k \in KeyConstants |->
                      IF k = PLANE_PITCH_KEY THEN pitch
                      ELSE IF k = PLANE_BANK_KEY THEN bank
                      ELSE IF k = TRUE_HEADING_KEY THEN heading
                      ELSE 0]
    IN  WithScalars(WithBodyVelocity(WithWind(angles, w), v), p)

\* the signals before the first tick
InitialReading ==
    Reading(DefaultAngle, DefaultAngle, DefaultAngle,
            <<0, 0, 0>>, <<0, 0, 0>>, 0)

\* from one tick to the next one group of signals moves
Drift(values) ==
    {[values EXCEPT ![PLANE_PITCH_KEY] = a] : a \in Angles}
    \cup {[values EXCEPT ![PLANE_BANK_KEY] = a] : a \in Angles}
    \cup {[values EXCEPT ![TRUE_HEADING_KEY] = a] : a \in Angles}
    \cup {WithWind(values, w) : w \in Winds}
    \cup {WithBodyVelocity(values, v) : v \in BodyVelocities}
    \cup {WithScalars(values, p) : p \in 0..MaxProfile}

\* all signals move at once
SweepReading(k) ==
    Reading(Angle(k, 1), Angle(k + 1, 0), Angle(k + 2, 1),
            <<(k + 1) * F64_ONE, 2 * (k + 1) * F64_ONE, 3 * (k + 1) * F64_ONE>>,
            <<k * F64_ONE, 0 - 2 * k * F64_ONE, 7 * k * F64_ONE>>, k)

\* tick lengths
Deltas == {Duration_from_millis(1500 * m) : m \in 0..MaxDelta}

\* the arguments of new(), all different
NewArgs(k) ==
    [delta |-> Duration_from_millis(1500 * k),
     indicated_airspeed |-> 10 * k * F64_ONE,
     true_airspeed |-> 11 * k * F64_ONE,
     indicated_altitude |-> 12 * k * F64_ONE,
     ambient_temperature |-> 13 * k * F64_ONE,
     is_on_ground |-> k % 2 = 1,
     longitudinal_acceleration |-> (k + 1) * F64_ONE,
     lateral_acceleration |-> (k + 2) * F64_ONE,
     vertical_acceleration |-> (k + 3) * F64_ONE,
     pitch |-> Angle(k, 1),
     bank |-> Angle(k + 1, 0),
     mach_number |-> 14 * k * F64_ONE]

\* an InitContext may hold other components' registrations already
InitContexts == {<<>>, <<"EXTERNAL POWER", TRUE_AIRSPEED_KEY>>}

-----------------------------------------------------------------------------
(* The state machine *)

VARIABLES
    context,    \* the InitContext: registered names, identifier = position
    ctx,        \* the UpdateContext
    values,     \* the simulator's signals, by name
    requested,  \* the names the constructor passed to get_identifier
    call,       \* the last operation, its Duration argument, new()'s arguments
    ret         \* what the last accessor call returned

vars == <<context, ctx, values, requested, call, ret>>

Nothing == <<>>

BuiltByNew(c0, k) ==
    LET a == NewArgs(k)
        n == UpdateContext_new(c0, a.delta, a.indicated_airspeed, a.true_airspeed,
                a.indicated_altitude, a.ambient_temperature, a.is_on_ground,
                a.longitudinal_acceleration, a.lateral_acceleration,
                a.vertical_acceleration, a.pitch, a.bank, a.mach_number)
    IN  /\ context = n.context
        /\ ctx = n.self
        /\ requested = n.requested
        /\ call = [name |-> "new", delta |-> a.delta, args |-> a]

BuiltForSimulation(c0) ==
    LET n == UpdateContext_new_for_simulation(c0)
    IN  /\ context = n.context
        /\ ctx = n.self
        /\ requested = n.requested
        /\ call = [name |-> "new_for_simulation", delta |-> DefaultDuration,
                   args |-> Nothing]

Init ==
    /\ values = InitialReading
    /\ ret = Nothing
    /\ \E c0 \in InitContexts :
        \/ \E k \in 0..MaxProfile : BuiltByNew(c0, k)
        \/ BuiltForSimulation(c0)

\* a tick: the reader holds the signals' current values, update() ingests them
Tick(reading, d) ==
    /\ values' = reading
    /\ ctx' = update(ctx, [context |-> context, values |-> reading], d)
    /\ call' = [name |-> "update", delta |-> d, args |-> Nothing]
    /\ ret' = Nothing
    /\ UNCHANGED <<context, requested>>

\* a tick on which one group of signals, or the tick length, has moved
Update ==
    \/ \E reading \in Drift(values) : Tick(reading, call.delta)
    \/ \E d \in Deltas : Tick(values, d)

\* a tick on which every signal has moved
UpdateSweep ==
    \E k \in 0..MaxProfile, d \in Deltas : Tick(SweepReading(k), d)

Accessor ==
    \E name \in Accessors :
        LET c == Call(ctx, name)
        IN  /\ ctx' = c.self
            /\ ret' = c.result
            /\ call' = [name |-> name, delta |-> DefaultDuration, args |-> Nothing]
            /\ UNCHANGED <<context, values, requested>>

WithDelta ==
    \E d \in Deltas :
        LET c == CallWithDelta(ctx, d)
        IN  /\ ctx' = c.self
            /\ ret' = c.result
            /\ call' = [name |-> "with_delta", delta |-> d, args |-> Nothing]
            /\ UNCHANGED <<context, values, requested>>

Next == Update

Spec == Init /\ [][Next]_vars

NextAccessors == UpdateSweep \/ Accessor \/ WithDelta

SpecAccessors == Init /\ [][NextAccessors]_vars

-----------------------------------------------------------------------------
(* What the claims speak of *)

\* a struct was obtained from the last operation
Updated == call.name = "update"

\* the signals of the current tick, by axis
WindSignal ==
    <<values[WIND_VELOCITY_X_KEY], values[WIND_VELOCITY_Y_KEY],
      values[WIND_VELOCITY_Z_KEY]>>

BodyVelocitySignal ==
    <<values[LOCAL_LATERAL_SPEED_KEY], values[LOCAL_VERTICAL_SPEED_KEY],
      values[LOCAL_LONGITUDINAL_SPEED_KEY]>>

AccelerationSignal ==
    <<values[ACCEL_BODY_X_KEY], values[ACCEL_BODY_Y_KEY], values[ACCEL_BODY_Z_KEY]>>

\* one foot is 381/1250 m, one foot per minute 127/25000 m/s
FeetPerSecondInMs(x) == MulDiv(x, 381, 1250)

FeetPerMinuteInMs(x) == MulDiv(x, 127, 25000)

\* [lateral, vertical, longitudinal] of a Velocity3D, in m/s
Components(v) == <<lat_velocity(v), vert_velocity(v), long_velocity(v)>>

\* the relative wind a struct's own fields reconstruct to
Reconstructed(c) == update_relative_wind(c).local_relative_wind

Zero3 == <<0, 0, 0>>

-----------------------------------------------------------------------------
(* C1 *)

\* C1: in every reachable state, right after either constructor included, and
\* in every copy with_delta returns, local_relative_wind is the relative-wind
\* reconstruction of the struct's own world_ambient_wind, attitude,
\* true_heading and local_velocity.
C1_RelativeWindAlwaysDerived ==
    /\ ctx.local_relative_wind = Reconstructed(ctx)
    /\ call.name = "with_delta" => ret.local_relative_wind = Reconstructed(ret)

-----------------------------------------------------------------------------
(* C2 *)

\* the seconds of a Duration as an f64: its whole milliseconds, 1/1000 each
SecondsOf(d) ==
    (d.secs * 1000 + d.nanos \div NANOS_PER_MILLI) * (F64_ONE \div 1000)

DeltaAccessors == {"delta", "delta_as_secs_f64", "delta_as_time"}

\* C2: a with_delta(d) step leaves the receiver as it was and returns a struct
\* whose delta(), delta_as_secs_f64() and delta_as_time() are d, and whose
\* every other field and accessor result is the receiver's (local_relative_wind
\* is copied, not recomputed; the identifiers are copied).
C2_WithDeltaOverridesOnlyDelta ==
    [][call'.name = "with_delta" =>
        /\ ctx' = ctx
        /\ UpdateContext_delta(ret') = call'.delta
        /\ UpdateContext_delta_as_secs_f64(ret') = SecondsOf(call'.delta)
        /\ UpdateContext_delta_as_time(ret') = SecondsOf(call'.delta)
        /\ DOMAIN ret' = DOMAIN ctx
        /\ \A f \in DOMAIN ctx \ {"delta"} : ret'[f] = ctx[f]
        /\ \A name \in Accessors \ DeltaAccessors :
              Call(ret', name).result = Call(ctx, name).result]_vars

\* with_delta has returned a copy whose delta differs from the receiver's, of
\* a struct whose relative wind is not zero
C2_Witness ==
    /\ call.name = "with_delta"
    /\ UpdateContext_delta(ret) # UpdateContext_delta(ctx)
    /\ UpdateContext_delta(ret) = call.delta
    /\ Components(ctx.local_relative_wind) # Zero3
    /\ ret.local_relative_wind = ctx.local_relative_wind

-----------------------------------------------------------------------------
(* C3 *)

\* the rotations of the current tick's attitude and heading signals
PitchRotationSignal == Rotation3_from_axis_angle(x_axis, values[PLANE_PITCH_KEY])

BankRotationSignal ==
    Rotation3_from_axis_angle(z_axis, NegAngle(values[PLANE_BANK_KEY]))

HeadingRotationSignal == Rotation3_from_axis_angle(y_axis, values[TRUE_HEADING_KEY])

BodyVelocityInMs ==
    <<FeetPerSecondInMs(BodyVelocitySignal[1]), FeetPerSecondInMs(BodyVelocitySignal[2]),
      FeetPerSecondInMs(BodyVelocitySignal[3])>>

\* C3: after every update, [lateral, vertical, longitudinal] of
\* local_relative_wind is pitch_rot^-1 (bank_rot (heading_rot^-1 world_wind))
\* less the body velocity, all of them the values read on that same tick.
C3_RelativeWindFormula ==
    Updated =>
        Components(ctx.local_relative_wind) =
            Vector3_sub(
                Rotation3_mul(Rotation3_inverse(PitchRotationSignal),
                    Rotation3_mul(BankRotationSignal,
                        Rotation3_mul(Rotation3_inverse(HeadingRotationSignal),
                                      WindSignal))),
                BodyVelocityInMs)

\* an update with pitch, bank and heading none a multiple of 90 degrees, a
\* wind with three distinct parts and a moving plane
C3_Witness ==
    /\ Updated
    /\ values[PLANE_PITCH_KEY].theta = 1
    /\ values[PLANE_BANK_KEY].theta = 1
    /\ values[TRUE_HEADING_KEY].theta = 1
    /\ values[PLANE_PITCH_KEY] # values[PLANE_BANK_KEY]
    /\ WindSignal = <<F64_ONE, 2 * F64_ONE, 3 * F64_ONE>>
    /\ BodyVelocitySignal[3] # 0
    /\ Components(ctx.local_relative_wind) # Zero3

-----------------------------------------------------------------------------
(* C4 *)

\* C4: after update(reader, delta) every data field holds the value of its own
\* signal in that signal's unit: pressure as inches of mercury, vertical speed
\* as feet per minute, body velocity X/Y/Z as feet per second in
\* [lateral, vertical, longitudinal], wind X/Y/Z as metres per second in the
\* same order, acceleration X/Y/Z in the same order, attitude from the pitch
\* and bank signals, and delta the argument.
C4_FieldsHoldTheirOwnSignal ==
    Updated =>
        /\ ctx.ambient_temperature = values[AMBIENT_TEMPERATURE_KEY]
        /\ ctx.indicated_airspeed = values[INDICATED_AIRSPEED_KEY]
        /\ ctx.true_airspeed = values[TRUE_AIRSPEED_KEY]
        /\ ctx.indicated_altitude = values[INDICATED_ALTITUDE_KEY]
        /\ ctx.is_on_ground = values[IS_ON_GROUND_KEY]
        /\ ctx.ambient_pressure = MulDiv(values[AMBIENT_PRESSURE_KEY], inch_of_mercury, F64_ONE)
        /\ ctx.vertical_speed = FeetPerMinuteInMs(values[VERTICAL_SPEED_KEY])
        /\ Components(ctx.local_velocity) = BodyVelocityInMs
        /\ Components(ctx.world_ambient_wind) = WindSignal
        /\ ctx.local_acceleration.acceleration = AccelerationSignal
        /\ ctx.attitude.pitch = values[PLANE_PITCH_KEY]
        /\ ctx.attitude.bank = values[PLANE_BANK_KEY]
        /\ ctx.true_heading = values[TRUE_HEADING_KEY]
        /\ ctx.mach_number = values[MACH_NUMBER_KEY]
        /\ ctx.air_density = values[AMBIENT_DENSITY_KEY]
        /\ ctx.delta = <<call.delta>>

\* an update on which the plane moves along all three axes, the wind has three
\* distinct parts, pitch and bank differ and the tick has a length
C4_Witness ==
    /\ Updated
    /\ BodyVelocitySignal = <<F64_ONE, 0 - 2 * F64_ONE, 7 * F64_ONE>>
    /\ WindSignal = <<F64_ONE, 2 * F64_ONE, 3 * F64_ONE>>
    /\ values[PLANE_PITCH_KEY] # values[PLANE_BANK_KEY]
    /\ values[IS_ON_GROUND_KEY]
    /\ call.delta # DefaultDuration
    /\ Components(ctx.local_velocity) = <<foot_per_second, 0 - 2 * foot_per_second,
                                          7 * foot_per_second>>

-----------------------------------------------------------------------------
(* C5 *)

\* C5: whatever the pitch, bank, heading and body velocity v, an update that
\* reads a zero world wind leaves local_relative_wind = -v on each axis.
C5_ZeroWindGivesMinusVelocity ==
    (Updated /\ WindSignal = Zero3) =>
        Components(ctx.local_relative_wind) =
            <<0 - BodyVelocityInMs[1], 0 - BodyVelocityInMs[2], 0 - BodyVelocityInMs[3]>>

\* an update in calm air of a moving plane, pitched, banked and turned
C5_Witness ==
    /\ Updated
    /\ WindSignal = Zero3
    /\ BodyVelocitySignal # Zero3
    /\ values[PLANE_PITCH_KEY].theta = 1
    /\ values[PLANE_BANK_KEY].theta = 1
    /\ values[TRUE_HEADING_KEY].theta = 1
    /\ Components(ctx.local_relative_wind) # Zero3

-----------------------------------------------------------------------------
(* C6 *)

WindSpeeds == {5 * k * F64_ONE : k \in 1..MaxWind}

\* C6: with zero pitch, zero bank and a plane at rest, a horizontal wind of
\* speed W along the true heading H (world parts W sin H, 0, W cos H) gives a
\* relative wind of W along the longitudinal axis and 0 on the other two.
C6_WindAlongHeadingIsLongitudinal ==
    (/\ Updated
     /\ values[PLANE_PITCH_KEY] = DefaultAngle
     /\ values[PLANE_BANK_KEY] = DefaultAngle
     /\ BodyVelocitySignal = Zero3) =>
        \A w \in WindSpeeds :
            WindSignal = <<Mul(w, Sin(values[TRUE_HEADING_KEY])), 0,
                           Mul(w, Cos(values[TRUE_HEADING_KEY]))>>
                => Components(ctx.local_relative_wind) = <<0, 0, w>>

\* such an update on a heading that is no multiple of 90 degrees
C6_Witness ==
    /\ Updated
    /\ values[PLANE_PITCH_KEY] = DefaultAngle
    /\ values[PLANE_BANK_KEY] = DefaultAngle
    /\ BodyVelocitySignal = Zero3
    /\ values[TRUE_HEADING_KEY].theta = 1
    /\ WindSignal[1] # 0
    /\ WindSignal[3] # 0
    /\ Components(ctx.local_relative_wind) = <<0, 0, 5 * F64_ONE>>

-----------------------------------------------------------------------------
(* C7 *)

\* the names the constructor asked an identifier for
RequestedKeys == {requested[i] : i \in 1..Len(requested)}

\* the names the struct's identifiers were registered for
HeldKeys == {context[ctx[IdFields[i]]] : i \in 1..Len(IdFields)}

-----------------------------------------------------------------------------
(* C8 *)

\* C8: to_ms_vector / to_ms2_vector give [lateral, vertical, longitudinal] of
\* what the vector was constructed with, and lat/vert/long read the lateral,
\* vertical and longitudinal argument; a struct built by new() answers
\* long_accel(), lat_accel(), vert_accel() with the longitudinal, lateral and
\* vertical acceleration argument.
C8_AxesKeepTheirOrder ==
    /\ call.name = "new" =>
          /\ UpdateContext_long_accel(ctx) = call.args.longitudinal_acceleration
          /\ UpdateContext_lat_accel(ctx) = call.args.lateral_acceleration
          /\ UpdateContext_vert_accel(ctx) = call.args.vertical_acceleration
          /\ to_ms2_vector(ctx.local_acceleration) =
                <<call.args.lateral_acceleration, call.args.vertical_acceleration,
                  call.args.longitudinal_acceleration>>
          /\ to_ms_vector(ctx.local_velocity) = <<0, 0, call.args.indicated_airspeed>>
          /\ long_velocity(ctx.local_velocity) = call.args.indicated_airspeed
    /\ Updated =>
          /\ to_ms2_vector(ctx.local_acceleration) = AccelerationSignal
          /\ LocalAcceleration_lat_accel(ctx.local_acceleration) = AccelerationSignal[1]
          /\ LocalAcceleration_vert_accel(ctx.local_acceleration) = AccelerationSignal[2]
          /\ LocalAcceleration_long_accel(ctx.local_acceleration) = AccelerationSignal[3]
          /\ to_ms_vector(ctx.local_velocity) = BodyVelocityInMs
          /\ lat_velocity(ctx.local_velocity) = BodyVelocityInMs[1]
          /\ vert_velocity(ctx.local_velocity) = BodyVelocityInMs[2]
          /\ long_velocity(ctx.local_velocity) = BodyVelocityInMs[3]
          /\ to_ms_vector(ctx.world_ambient_wind) = WindSignal

\* a struct fresh from new() with three different accelerations and a speed
C8_Witness ==
    /\ call.name = "new"
    /\ call.args.indicated_airspeed # 0
    /\ call.args.lateral_acceleration # call.args.longitudinal_acceleration
    /\ call.args.lateral_acceleration # call.args.vertical_acceleration
    /\ UpdateContext_long_accel(ctx) = call.args.longitudinal_acceleration

-----------------------------------------------------------------------------
(* C9 *)

\* C9 as claimed: bank_rotation_transform() is the rotation by -bank about the
\* vertical axis, index 1 of [lateral, vertical, longitudinal].
C9_BankAboutVerticalAxis ==
    LET c == Cos(NegAngle(ctx.attitude.bank))
        s == Sin(NegAngle(ctx.attitude.bank))
    IN  bank_rotation_transform(ctx.attitude) =
            << <<c, 0, s>>,
               <<0, F64_ONE, 0>>,
               <<0 - s, 0, c>> >>

\* C9 as amended: bank_rotation_transform() is the rotation by -bank, the
\* stored angle neither wrapped nor clamped, about the longitudinal axis,
\* index 2 of [lateral, vertical, longitudinal].
C9_BankAboutLongitudinalAxis ==
    LET c == Cos(NegAngle(ctx.attitude.bank))
        s == Sin(NegAngle(ctx.attitude.bank))
    IN  bank_rotation_transform(ctx.attitude) =
            << <<c, 0 - s, 0>>,
               <<s, c, 0>>,
               <<0, 0, F64_ONE>> >>

\* a bank that is no multiple of 90 degrees and more than a half turn
C9_Witness ==
    /\ ctx.attitude.bank.theta = 1
    /\ ctx.attitude.bank.quarter > 2
    /\ Rotation3_mul(bank_rotation_transform(ctx.attitude), z_axis) = z_axis
    /\ Rotation3_mul(bank_rotation_transform(ctx.attitude), y_axis) # y_axis

-----------------------------------------------------------------------------
(* C10 *)

Reads == Accessors \cup {"with_delta"}

\* C10: a call of any accessor, with_delta included, leaves every field of the
\* struct as it was, and the same call made twice in a row returns the same.
C10_AccessorsDoNotWrite ==
    [][call'.name \in Reads =>
        /\ ctx' = ctx
        /\ (call.name = call'.name /\ call.delta = call'.delta) => ret' = ret]_vars

\* local_relative_wind() has returned the stored, non-zero relative wind of a
\* struct whose fields reconstruct to another
C10_Witness ==
    /\ call.name = "local_relative_wind"
    /\ ret = ctx.local_relative_wind
    /\ ctx.local_relative_wind # Reconstructed(ctx)

-----------------------------------------------------------------------------
(* C11 *)

\* the identifier fields of a struct
IdsOf(c) == [i \in 1..Len(IdFields) |-> c[IdFields[i]]]

\* the data fields of a struct
DataOf(c) ==
    [f \in DOMAIN c \ {IdFields[i] : i \in 1..Len(IdFields)} |-> c[f]]

\* structs of other histories on the same InitContext: fresh from either
\* constructor, or updated on a tick on which every signal had another value
FreshStructs ==
    {UpdateContext_new_for_simulation(context).self}
    \cup {LET a == NewArgs(k)
          IN  UpdateContext_new(context, a.delta, a.indicated_airspeed,
                  a.true_airspeed, a.indicated_altitude, a.ambient_temperature,
                  a.is_on_ground, a.longitudinal_acceleration,
                  a.lateral_acceleration, a.vertical_acceleration, a.pitch,
                  a.bank, a.mach_number).self : k \in {0, MaxProfile}}

OtherHistories ==
    FreshStructs
    \cup {update(UpdateContext_new_for_simulation(context).self,
                 [context |-> context, values |-> SweepReading(k + 1)],
                 Duration_from_millis(700 * (k + 1))) : k \in {0, MaxProfile}}

\* C11: update() leaves every identifier as construction set it and
\* overwrites every data field: a struct with the same identifiers and any
\* other data, updated with the same signals and the same delta, ends with
\* the same data fields, local_relative_wind included.
C11_UpdateForgetsEarlierTicks ==
    Updated =>
        /\ IdsOf(ctx) = IdsOf(UpdateContext_new_for_simulation(context).self)
        /\ \A other \in OtherHistories :
              /\ IdsOf(other) = IdsOf(ctx)
              /\ DataOf(update(other, [context |-> context, values |-> values],
                               call.delta)) = DataOf(ctx)

\* an update whose result differs, in the fields a tick can change alone, from
\* a struct of another history that was not fresh
C11_Witness ==
    /\ Updated
    /\ \E other \in OtherHistories \ FreshStructs :
          /\ other.mach_number # ctx.mach_number
          /\ other.is_on_ground # ctx.is_on_ground
          /\ other.attitude # ctx.attitude
          /\ other.true_heading # ctx.true_heading
          /\ other.delta # ctx.delta
          /\ other.local_velocity # ctx.local_velocity
          /\ other.world_ambient_wind # ctx.world_ambient_wind
          /\ other.local_relative_wind # ctx.local_relative_wind
          /\ Components(other.local_relative_wind) # Zero3
          /\ Components(ctx.local_relative_wind) # Zero3

====
